---- MODULE Spec2Model ----
(***************************************************************************)
(* Model of the congratulations agent: the event checker                   *)
(* (src/modules/trigger/event_checker.py) and the text generator           *)
(* (src/modules/generator/text_generator.py) over the client table.        *)
(*                                                                         *)
(* Python values are encoded as follows.                                   *)
(*   Optional[T]   None is <<>>, a value v is <<v>>.                       *)
(*   datetime.date a record [y, m, d].                                     *)
(*   segment text  a sequence of Unicode code points, so that lower() and  *)
(*                 the `in` substring test can be computed.                *)
(*   event type, tone   TLA+ strings, joined with \o as the f-string does. *)
(* The operators on these values (truthiness, date arithmetic, lower(),    *)
(* strip(), len(), slices, replace()) compute what Python's built-ins do.  *)
(***************************************************************************)
EXTENDS Integers, Sequences, FiniteSets, TLC

VARIABLES
    today,       \* date.today()
    clients,     \* rows of the clients table, in id order
    upcoming,    \* outcome of the last check_birthdays call
    todayOut,    \* outcome of the last check_today_birthdays call
    stats,       \* outcome of the last get_statistics call
    byDate,      \* outcome of the last check_birthdays_by_date call
    use_ai,      \* TextGenerator.use_ai
    gigachat_api_key,  \* settings.GIGACHAT_API_KEY
    cache,       \* TextGenerator.cache: key string -> generation result
    lastCall,    \* the most recent call on the generator, its outcome, and
                 \* what the call before it was when it had the same arguments
    callers,     \* the generate_for_client calls in progress, one per caller
    generator_instance,  \* the module's _generator_instance: None, or the
                 \* TextGenerator whose fields are use_ai and cache
    congratulations,     \* rows of the congratulations table, in id order
    smtp         \* settings.SMTP_HOST, SMTP_USER, SMTP_PASSWORD and DEBUG

detectVars == <<today, clients, upcoming, todayOut, stats, byDate>>
genVars == <<use_ai, gigachat_api_key, cache, lastCall, callers>>
apiVars == <<generator_instance, congratulations, smtp>>
vars == <<today, clients, upcoming, todayOut, stats, byDate,
          use_ai, gigachat_api_key, cache, lastCall, callers,
          generator_instance, congratulations, smtp>>

---------------------------------------------------------------------------
\* Bounds of the model.

MaxClients == 2
MaxDaysAhead == 8

---------------------------------------------------------------------------
\* Optional values.

None == <<>>
Some(v) == <<v>>
IsNone(o) == o = <<>>
Val(o) == o[1]

\* Python truthiness of an optional text held as code points.
TruthySeq(o) == ~IsNone(o) /\ Val(o) # <<>>

---------------------------------------------------------------------------
\* datetime.date

Date(y, m, d) == [y |-> y, m |-> m, d |-> d]

IsLeap(y) == (y % 4 = 0) /\ ((y % 100 # 0) \/ (y % 400 = 0))

DaysInMonth(y, m) ==
    IF m = 2 THEN (IF IsLeap(y) THEN 29 ELSE 28)
    ELSE IF m \in {4, 6, 9, 11} THEN 30 ELSE 31

ValidDate(y, m, d) == m \in 1..12 /\ d >= 1 /\ d <= DaysInMonth(y, m)

DaysBeforeYear(y) ==
    LET p == y - 1 IN p * 365 + (p \div 4) - (p \div 100) + (p \div 400)

RECURSIVE DaysBeforeMonth(_, _)
DaysBeforeMonth(y, m) ==
    IF m = 1 THEN 0 ELSE DaysBeforeMonth(y, m - 1) + DaysInMonth(y, m - 1)

\* date.toordinal(): the difference of two dates is the difference of these.
ToOrdinal(dt) == DaysBeforeYear(dt.y) + DaysBeforeMonth(dt.y, dt.m) + dt.d

DateLess(a, b) == ToOrdinal(a) < ToOrdinal(b)

\* date.replace(year=y) raises ValueError when the day does not exist in y.
ReplaceYearRaises(dt, y) == ~ValidDate(y, dt.m, dt.d)
ReplaceYear(dt, y) == Date(y, dt.m, dt.d)

---------------------------------------------------------------------------
\* Text as code points.

cp_vip == <<118, 105, 112>>
cp_loyal == <<108, 111, 121, 97, 108>>
cp_new == <<110, 101, 119>>
cp_default == <<100, 101, 102, 97, 117, 108, 116>>
\* "лояльн", "нов"
cp_loyal_ru == <<1083, 1086, 1103, 1083, 1100, 1085>>
cp_new_ru == <<1085, 1086, 1074>>
\* "VIP", "Лояльный", "Новый", "VIP-клиент", "Стандарт"
cp_VIP == <<86, 73, 80>>
cp_Loyal_ru == <<1051, 1086, 1103, 1083, 1100, 1085, 1099, 1081>>
cp_New_ru == <<1053, 1086, 1074, 1099, 1081>>
cp_VIP_client == <<86, 73, 80, 45, 1082, 1083, 1080, 1077, 1085, 1090>>
cp_Standard_ru == <<1057, 1090, 1072, 1085, 1076, 1072, 1088, 1090>>
\* "Loyal VIP", "New loyal", "NEW", "НОВЫЙ"
cp_Loyal_VIP == <<76, 111, 121, 97, 108, 32, 86, 73, 80>>
cp_New_loyal == <<78, 101, 119, 32, 108, 111, 121, 97, 108>>
cp_NEW == <<78, 69, 87>>
cp_NEW_ru == <<1053, 1054, 1042, 1067, 1049>>

\* str.lower() on one code point: Latin A-Z and Cyrillic capitals.
LowerCp(c) ==
    IF (c >= 65 /\ c <= 90) \/ (c >= 1040 /\ c <= 1071) THEN c + 32 ELSE c

Lower(s) == [i \in 1..Len(s) |-> LowerCp(s[i])]

\* needle in haystack
Contains(needle, hay) ==
    \E k \in 0..(Len(hay) - Len(needle)) :
        \A i \in 1..Len(needle) : hay[k + i] = needle[i]

\* Python's < on sequences of code points (str and tuple comparison).
RECURSIVE LexLess(_, _)
LexLess(a, b) ==
    IF Len(b) = 0 THEN FALSE
    ELSE IF Len(a) = 0 THEN TRUE
    ELSE IF Head(a) # Head(b) THEN Head(a) < Head(b)
    ELSE LexLess(Tail(a), Tail(b))

\* Code points of the priority strings "high", "medium", "low".
PriorityCp(p) ==
    CASE p = "high" -> <<104, 105, 103, 104>>
      [] p = "medium" -> <<109, 101, 100, 105, 117, 109>>
      [] p = "low" -> <<108, 111, 119>>

---------------------------------------------------------------------------
\* TextGenerator._determine_segment: the canonical bucket of a raw segment.

\* The match is made on the raw text, case kept.
_determine_segment_CaseKept(segment) ==
    IF IsNone(segment) \/ Val(segment) = <<>> THEN cp_default
    ELSE IF Contains(cp_vip, Val(segment)) THEN cp_vip
    ELSE IF Contains(cp_loyal, Val(segment))
            \/ Contains(cp_loyal_ru, Val(segment)) THEN cp_loyal
    ELSE IF Contains(cp_new, Val(segment))
            \/ Contains(cp_new_ru, Val(segment)) THEN cp_new
    ELSE cp_default

_determine_segment(segment) ==
    IF IsNone(segment) \/ Val(segment) = <<>> THEN cp_default
    ELSE LET segment_lower == Lower(Val(segment))
         IN IF Contains(cp_vip, segment_lower) THEN cp_vip
            ELSE IF Contains(cp_loyal, segment_lower)
                    \/ Contains(cp_loyal_ru, segment_lower) THEN cp_loyal
            ELSE IF Contains(cp_new, segment_lower)
                    \/ Contains(cp_new_ru, segment_lower) THEN cp_new
            ELSE cp_default

---------------------------------------------------------------------------
\* Client rows.

Client(id, full_name, segment, birthday) ==
    [id |-> id, full_name |-> full_name, segment |-> segment, birthday |-> birthday]

---------------------------------------------------------------------------
\* EventChecker

BIRTHDAY_DAYS_AHEAD == 7

_calculate_priority(client, days_until) ==
    IF days_until = 0 THEN "high"
    ELSE IF client.segment = Some(cp_VIP) /\ days_until <= 3 THEN "high"
    ELSE IF client.segment = Some(cp_Loyal_ru) /\ days_until <= 2 THEN "medium"
    ELSE IF days_until <= 1 THEN "medium"
    ELSE "low"

\* Lines 47-51: the birthday moved to this year, or to the next one when it
\* has already passed.  Either replace() may raise.
BirthdayRaises(client, t) ==
    \/ ReplaceYearRaises(client.birthday, t.y)
    \/ /\ DateLess(ReplaceYear(client.birthday, t.y), t)
       /\ ReplaceYearRaises(client.birthday, t.y + 1)

BirthdayThisYear(client, t) ==
    LET b == ReplaceYear(client.birthday, t.y)
    IN IF DateLess(b, t) THEN ReplaceYear(b, t.y + 1) ELSE b

BirthdayEvent(client, t) ==
    LET b == BirthdayThisYear(client, t)
        days_until == ToOrdinal(b) - ToOrdinal(t)
    IN [type |-> "birthday",
        client_id |-> client.id,
        client_segment |-> client.segment,
        birthday |-> client.birthday,
        upcoming_date |-> b,
        days_until |-> days_until,
        is_today |-> (days_until = 0),
        priority |-> _calculate_priority(client, days_until)]

\* The sort key of line 77, compared as Python compares tuples:
\* (priority string, days_until).
SortKeyLess(x, y) ==
    \/ LexLess(PriorityCp(x.priority), PriorityCp(y.priority))
    \/ /\ x.priority = y.priority
       /\ x.days_until < y.days_until

\* list.sort is stable: an element goes after every element it is not less than.
RECURSIVE InsertSorted(_, _)
InsertSorted(e, s) ==
    IF s = <<>> THEN <<e>>
    ELSE IF SortKeyLess(e, Head(s)) THEN <<e>> \o s
    ELSE <<Head(s)>> \o InsertSorted(e, Tail(s))

RECURSIVE SortEvents(_)
SortEvents(s) ==
    IF s = <<>> THEN <<>>
    ELSE InsertSorted(s[Len(s)], SortEvents(SubSeq(s, 1, Len(s) - 1)))

RECURSIVE CollectUpcoming(_, _, _)
CollectUpcoming(rows, t, days_ahead) ==
    IF rows = <<>> THEN <<>>
    ELSE LET e == BirthdayEvent(Head(rows), t)
             rest == CollectUpcoming(Tail(rows), t, days_ahead)
         IN IF 0 <= e.days_until /\ e.days_until <= days_ahead
            THEN <<e>> \o rest ELSE rest

\* check_birthdays: the outcome for a roster, a date and an optional window.
check_birthdays(rows, t, days_ahead_opt) ==
    LET days_ahead == IF IsNone(days_ahead_opt) THEN BIRTHDAY_DAYS_AHEAD
                      ELSE Val(days_ahead_opt)
    IN IF \E i \in 1..Len(rows) : BirthdayRaises(rows[i], t)
       THEN [status |-> "raised", days_ahead |-> days_ahead, events |-> <<>>]
       ELSE [status |-> "ok", days_ahead |-> days_ahead,
             events |-> SortEvents(CollectUpcoming(rows, t, days_ahead))]

TodayEvent(client) ==
    [type |-> "birthday",
     client_id |-> client.id,
     client_segment |-> client.segment,
     birthday |-> client.birthday,
     days_until |-> 0,
     is_today |-> TRUE,
     priority |-> "high"]

RECURSIVE CollectToday(_, _)
CollectToday(rows, t) ==
    IF rows = <<>> THEN <<>>
    ELSE LET c == Head(rows)
             rest == CollectToday(Tail(rows), t)
         IN IF c.birthday.m = t.m /\ c.birthday.d = t.d
            THEN <<TodayEvent(c)>> \o rest ELSE rest

check_today_birthdays(rows, t) ==
    [status |-> "ok", events |-> CollectToday(rows, t)]

\* Lines 125-141: the event of a client whose birthday falls on target_date.
ByDateEvent(client, target_date) ==
    [type |-> "birthday",
     client_id |-> client.id,
     client_segment |-> client.segment,
     birthday |-> client.birthday,
     target_date |-> target_date,
     priority |-> _calculate_priority(client, 0)]

\* The match is made against the current date.
ByDateMatch_Today(client, target_date) ==
    client.birthday.m = today.m /\ client.birthday.d = today.d

\* Line 125.
ByDateMatch(client, target_date) ==
    client.birthday.m = target_date.m /\ client.birthday.d = target_date.d

RECURSIVE CollectByDate(_, _)
CollectByDate(rows, target_date) ==
    IF rows = <<>> THEN <<>>
    ELSE LET rest == CollectByDate(Tail(rows), target_date)
         IN IF ByDateMatch(Head(rows), target_date)
            THEN <<ByDateEvent(Head(rows), target_date)>> \o rest ELSE rest

check_birthdays_by_date(rows, target_date) ==
    [status |-> "ok", target_date |-> target_date,
     events |-> CollectByDate(rows, target_date)]

\* "Не указан", the label of a client without segment
cp_Not_set_ru == <<1053, 1077, 32, 1091, 1082, 1072, 1079, 1072, 1085>>

\* Line 195: client.segment or "Не указан"
SegmentLabel(client) ==
    IF TruthySeq(client.segment) THEN Val(client.segment) ELSE cp_Not_set_ru

\* Lines 193-196: the dict from label to number of clients.
SegmentCounts(rows) ==
    [l \in { SegmentLabel(rows[i]) : i \in 1..Len(rows) } |->
        Cardinality({ i \in 1..Len(rows) : SegmentLabel(rows[i]) = l })]

\* get_statistics: raises when check_birthdays(days_ahead=7) raises.
get_statistics(rows, t) ==
    LET today_birthdays == check_today_birthdays(rows, t)
        week_birthdays == check_birthdays(rows, t, Some(7))
    IN IF week_birthdays.status = "raised" THEN [status |-> "raised"]
       ELSE [status |-> "ok",
             total_clients |-> Len(rows),
             birthdays_today |-> Len(today_birthdays.events),
             birthdays_this_week |-> Len(week_birthdays.events),
             segments |-> SegmentCounts(rows),
             checked_at |-> t]

NotCalled == [status |-> "none", days_ahead |-> 0, events |-> <<>>]
TodayNotCalled == [status |-> "none", events |-> <<>>]
StatsNotCalled == [status |-> "none"]
ByDateNotCalled == [status |-> "none", events |-> <<>>]

---------------------------------------------------------------------------
\* TextGenerator

USE_REAL_AI == FALSE

wishes_pool == <<"wish1", "wish2", "wish3", "wish4", "wish5", "wish6", "wish7">>

\* "клиент", the context's segment when the client has none
cp_client_ru == <<1082, 1083, 1080, 1077, 1085, 1090>>

\* Python truthiness of an Optional[str] / Optional[int].
TruthyStr(o) == ~IsNone(o) /\ Val(o) # ""
TruthyInt(o) == ~IsNone(o) /\ Val(o) # 0

\* f"{client_id}_{event_type}_{tone}": None is formatted as the text "None".
cache_key(client_id, event_type, tone) ==
    ToString(client_id) \o "_" \o event_type \o "_"
        \o (IF IsNone(tone) THEN "None" ELSE Val(tone))

\* tones.get(segment, "уважительный"); the tones are named in English here:
\* formal, friendly, welcoming, respectful.
_determine_tone(segment) ==
    IF segment = Some(cp_vip) THEN "formal"
    ELSE IF segment = Some(cp_loyal) THEN "friendly"
    ELSE IF segment = Some(cp_new) THEN "welcoming"
    ELSE "respectful"

\* The year is not yet counted on the birthday itself.
ContextAge_DecrementOnBirthday(client, event_type, t) ==
    IF event_type = "birthday"
    THEN LET age == t.y - client.birthday.y
         IN IF t.m < client.birthday.m
               \/ (t.m = client.birthday.m /\ t.d <= client.birthday.d)
            THEN Some(age - 1) ELSE Some(age)
    ELSE None

\* Lines 116-124.
ContextAge(client, event_type, t) ==
    IF event_type = "birthday"
    THEN LET age == t.y - client.birthday.y
         IN IF t.m < client.birthday.m
               \/ (t.m = client.birthday.m /\ t.d < client.birthday.d)
            THEN Some(age - 1) ELSE Some(age)
    ELSE None

\* Every full decade counts.
IsJubileeValue_AnyDecade(age) ==
    IF IsNone(age) THEN <<"None">>
    ELSE IF Val(age) = 0 THEN <<"int", 0>>
    ELSE <<"bool", Val(age) % 10 = 0>>

\* `age and age % 10 == 0 and age >= 30`: None, 0 or a boolean.
IsJubileeValue(age) ==
    IF IsNone(age) THEN <<"None">>
    ELSE IF Val(age) = 0 THEN <<"int", 0>>
    ELSE IF Val(age) % 10 # 0 THEN <<"bool", FALSE>>
    ELSE <<"bool", Val(age) >= 30>>

\* Lines 142-148; None when the key is not set.
AgeAdjective(age) ==
    IF TruthyInt(age)
    THEN (IF Val(age) < 30 THEN Some("young")
          ELSE IF Val(age) < 50 THEN Some("mature")
          ELSE Some("respected"))
    ELSE None

_create_context(client, event_type, tone, t) ==
    LET age == ContextAge(client, event_type, t)
    IN [full_name |-> client.full_name,
        segment |-> IF TruthySeq(client.segment) THEN Val(client.segment)
                    ELSE cp_client_ru,
        event_type |-> event_type,
        tone |-> IF TruthyStr(tone) THEN Val(tone)
                 ELSE _determine_tone(client.segment),
        age |-> age,
        is_jubilee |-> IsJubileeValue(age),
        age_adjective |-> AgeAdjective(age)]

\* PromptTemplates (templates/prompt_templates.py): a static table keyed by
\* (event type, segment) with a default template for an unknown pair.
KnownEventTypes == {"birthday", "professional", "holiday"}

get_template_by_event_type(event_type, segment) ==
    IF event_type \in KnownEventTypes THEN <<event_type, segment>>
    ELSE <<"default", cp_default>>

\* A text is a sequence of parts.  The formatted template is one part that
\* records the template and the context substituted into it.
format_template(template, context) ==
    << [part |-> "template", template |-> template, context |-> context] >>

JubileePart(age) == [part |-> "jubilee", age |-> age]
AiMarkerPart == [part |-> "ai_marker"]
WishPart(k) == [part |-> "wish", text |-> wishes_pool[k]]

Truthy(v) == v = <<"bool", TRUE>>

_generate_with_template(context, event_type, segment) ==
    LET text == format_template(get_template_by_event_type(event_type, segment), context)
    IN IF Truthy(context.is_jubilee) /\ event_type = "birthday"
       THEN Append(text, JubileePart(Val(context.age)))
       ELSE text

_generate_with_ai(context, event_type, segment) ==
    Append(format_template(get_template_by_event_type(event_type, segment), context),
           AiMarkerPart)

\* str.rstrip(): trailing whitespace parts are dropped.
RECURSIVE RStrip(_)
RStrip(text) ==
    IF text # <<>> /\ text[Len(text)].part = "space"
    THEN RStrip(SubSeq(text, 1, Len(text) - 1))
    ELSE text

RECURSIVE DigitCount(_)
DigitCount(n) == IF n < 10 THEN 1 ELSE 1 + DigitCount(n \div 10)

WishLen(w) ==
    CASE w = "wish1" -> 54 [] w = "wish2" -> 54 [] w = "wish3" -> 59
      [] w = "wish4" -> 53 [] w = "wish5" -> 58 [] w = "wish6" -> 53
      [] w = "wish7" -> 61

\* Characters of the formatted template: the table is not part of the
\* generator; a template of 200 characters plus the name is assumed.
TemplateLen(p) == 200 + Len(p.context.full_name)

\* len(): every part stands for its characters, the separator "\n\n" included.
PartLen(p) ==
    CASE p.part = "template" -> TemplateLen(p)
      [] p.part = "jubilee" -> 110 + DigitCount(p.age)
      [] p.part = "ai_marker" -> 42
      [] p.part = "wish" -> 2 + WishLen(p.text)
      [] p.part = "space" -> 1

RECURSIVE TextLen(_)
TextLen(text) == IF text = <<>> THEN 0 ELSE PartLen(Head(text)) + TextLen(Tail(text))

\* db.query(Client).filter(Client.id == client_id).first()
FindClient(rows, client_id) ==
    LET hits == { i \in 1..Len(rows) : rows[i].id = client_id }
    IN IF hits = {} THEN None
       ELSE Some(rows[CHOOSE i \in hits : \A j \in hits : i <= j])

EmptyCache == [k \in {} |-> 0]

CachePut(c, key, result) ==
    [k \in (DOMAIN c) \cup {key} |-> IF k = key THEN result ELSE c[k]]

\* Two wishes are appended.
AppendWish_Twice(rendered, roll) ==
    IF roll = 0 THEN rendered
    ELSE Append(Append(RStrip(rendered), WishPart(roll)), WishPart(roll))

\* Lines 87-89: roll is 0 when random.random() <= 0.5, else the index of
\* the wish random.choice draws; the wish part includes the blank line.
AppendWish(rendered, roll) ==
    IF roll = 0 THEN rendered ELSE Append(RStrip(rendered), WishPart(roll))

\* Lines 74-102: the result computed for a client that was found.  roll is
\* the outcome of the random draw (0 for no wish, k for wishes_pool[k]) and
\* clock the reading of datetime.now().
FreshResult(client, ai, apikey, clock, t, client_id, event_type, tone, roll) ==
    LET segment == _determine_segment(client.segment)
        context == _create_context(client, event_type, tone, t)
        rendered == IF ai /\ TruthyStr(apikey)
                    THEN _generate_with_ai(context, event_type, segment)
                    ELSE _generate_with_template(context, event_type, segment)
        text == AppendWish(rendered, roll)
    IN [text |-> text,
        client_id |-> client_id,
        client_name |-> client.full_name,
        event_type |-> event_type,
        segment |-> segment,
        generated_at |-> clock,
        method |-> IF ai THEN "ai" ELSE "template",
        tone |-> IF TruthyStr(tone) THEN Val(tone)
                 ELSE _determine_tone(Some(segment)),
        length |-> TextLen(text),
        context |-> context]

NoResult == [text |-> <<>>]

\* The cache is never consulted.
CacheHit_Never(c, key, use_cache) == FALSE

\* Line 66: whether the call is answered from the cache.
CacheHit(c, key, use_cache) == use_cache /\ key \in DOMAIN c

\* A result is stored only for a call that uses the cache.
StoreResult_OnlyWhenCaching(c, key, result, use_cache) ==
    IF use_cache THEN CachePut(c, key, result) ELSE c

\* Line 105: the cache after a computed result; use_cache plays no part.
StoreResult(c, key, result, use_cache) == CachePut(c, key, result)

\* A call that fails drops the entry under its key.
generate_for_client_EvictsOnFailure(rows, c, ai, apikey, clock, t, client_id, event_type, tone, use_cache, roll) ==
    LET key == cache_key(client_id, event_type, tone)
        client == FindClient(rows, client_id)
    IN IF CacheHit(c, key, use_cache)
       THEN [outcome |-> "ok", result |-> c[key], cache |-> c,
             fetched |-> FALSE, rolled |-> FALSE]
       ELSE IF IsNone(client)
       THEN [outcome |-> "ValueError", result |-> NoResult,
             cache |-> [k \in (DOMAIN c) \ {key} |-> c[k]],
             fetched |-> TRUE, rolled |-> FALSE]
       ELSE LET result == FreshResult(Val(client), ai, apikey, clock, t,
                                      client_id, event_type, tone, roll)
            IN [outcome |-> "ok", result |-> result,
                cache |-> StoreResult(c, key, result, use_cache),
                fetched |-> TRUE, rolled |-> TRUE]

\* generate_for_client: the outcome ("ok" with the result, or "ValueError"),
\* the cache afterwards, and whether the call queried the client and drew
\* the random wish.
generate_for_client(rows, c, ai, apikey, clock, t, client_id, event_type, tone, use_cache, roll) ==
    LET key == cache_key(client_id, event_type, tone)
        client == FindClient(rows, client_id)
    IN IF CacheHit(c, key, use_cache)
       THEN [outcome |-> "ok", result |-> c[key], cache |-> c,
             fetched |-> FALSE, rolled |-> FALSE]
       ELSE IF IsNone(client)
       THEN [outcome |-> "ValueError", result |-> NoResult, cache |-> c,
             fetched |-> TRUE, rolled |-> FALSE]
       ELSE LET result == FreshResult(Val(client), ai, apikey, clock, t,
                                      client_id, event_type, tone, roll)
            IN [outcome |-> "ok", result |-> result,
                cache |-> StoreResult(c, key, result, use_cache),
                fetched |-> TRUE, rolled |-> TRUE]

\* Lines 262-266: the entry for an id whose generation raised.
ErrorEntry(client_id) ==
    [client_id |-> client_id,
     error |-> "Client with ID " \o ToString(client_id) \o " not found",
     success |-> FALSE]

\* A failing id leaves no entry.
BatchStep_DropFailed(rows, acc, ai, apikey, t, client_id, event_type, env) ==
    LET r == generate_for_client(rows, acc.cache, ai, apikey, env.clock, t,
                                 client_id, event_type, None, FALSE, env.roll)
    IN [results |-> IF r.outcome = "ok" THEN Append(acc.results, r.result)
                    ELSE acc.results,
        cache |-> r.cache,
        fetched |-> Append(acc.fetched, r.fetched)]

\* Lines 258-266: one turn of the loop.  acc holds the results so far, the
\* cache, and for every turn whether the call queried the client; env is
\* the random draw and the clock reading of this turn.
BatchStep(rows, acc, ai, apikey, t, client_id, event_type, env) ==
    LET r == generate_for_client(rows, acc.cache, ai, apikey, env.clock, t,
                                 client_id, event_type, None, FALSE, env.roll)
    IN [results |-> Append(acc.results,
                           IF r.outcome = "ok" THEN r.result
                           ELSE ErrorEntry(client_id)),
        cache |-> r.cache,
        fetched |-> Append(acc.fetched, r.fetched)]

RECURSIVE BatchLoop(_, _, _, _, _, _, _, _)
BatchLoop(rows, acc, ai, apikey, t, client_ids, event_type, envs) ==
    IF client_ids = <<>> THEN acc
    ELSE BatchLoop(rows,
                   BatchStep(rows, acc, ai, apikey, t, Head(client_ids),
                             event_type, Head(envs)),
                   ai, apikey, t, Tail(client_ids), event_type, Tail(envs))

\* batch_generate: the results in input order and the cache afterwards.
batch_generate(rows, c, ai, apikey, t, client_ids, event_type, envs) ==
    BatchLoop(rows, [results |-> <<>>, cache |-> c, fetched |-> <<>>], ai, apikey, t,
              client_ids, event_type, envs)

\* The entries survive the call.
clear_cache_KeepsEntries(c) == c

\* clear_cache: self.cache.clear()
clear_cache(c) == EmptyCache

NoCall == [op |-> "none"]

\* The callers of the generator and a caller that is in no call.
Callers == {1, 2}
Idle == [pc |-> "idle"]
NoCallers == [t \in Callers |-> Idle]

\* TextGenerator.__init__ with the settings' defaults.
GeneratorConstructed ==
    /\ use_ai = USE_REAL_AI
    /\ gigachat_api_key = None
    /\ cache = EmptyCache
    /\ lastCall = NoCall
    /\ callers = NoCallers

\* settings.SMTP_HOST, SMTP_USER, SMTP_PASSWORD and DEBUG as config.py
\* sets them when the environment gives none.
DefaultSmtp ==
    [SMTP_HOST |-> None, SMTP_USER |-> None, SMTP_PASSWORD |-> None,
     DEBUG |-> TRUE]

\* No request has reached the API: the module has no generator instance and
\* the congratulations table is empty.
ApiIdle ==
    /\ generator_instance = None
    /\ congratulations = <<>>
    /\ smtp = DefaultSmtp

---------------------------------------------------------------------------
\* Inputs of the event checker runs.

Birthdays ==
    { Date(2000, 2, 29), Date(1994, 3, 1), Date(1990, 3, 8), Date(1996, 1, 2) }

Todays ==
    { Date(2023, 3, 1), Date(2024, 2, 29), Date(2024, 3, 1), Date(2023, 12, 30) }

Segments == { Some(cp_VIP), Some(cp_VIP_client), Some(cp_Loyal_ru), None }

RECURSIVE Rosters(_)
Rosters(n) ==
    IF n = 0 THEN { <<>> }
    ELSE LET shorter == Rosters(n - 1)
         IN shorter \cup
            { Append(r, Client(Len(r) + 1, "Ivan Petrov", s, b)) :
                r \in { q \in shorter : Len(q) = n - 1 },
                s \in Segments, b \in Birthdays }

DaysAheadInputs == { None } \cup { Some(n) : n \in 0..MaxDaysAhead }

\* A roster and a date; nothing has been checked yet.
InitDetect ==
    /\ today \in Todays
    /\ clients \in Rosters(MaxClients)
    /\ upcoming = NotCalled
    /\ todayOut = TodayNotCalled
    /\ stats = StatsNotCalled
    /\ byDate = ByDateNotCalled
    /\ ApiIdle
    /\ GeneratorConstructed

CheckBirthdays ==
    \E d \in DaysAheadInputs :
        /\ upcoming' = check_birthdays(clients, today, d)
        /\ UNCHANGED <<today, clients, todayOut, stats, byDate>>
        /\ UNCHANGED <<genVars, apiVars>>

CheckTodayBirthdays ==
    /\ todayOut' = check_today_birthdays(clients, today)
    /\ UNCHANGED <<today, clients, upcoming, stats, byDate>>
    /\ UNCHANGED <<genVars, apiVars>>

NextDetect == CheckBirthdays \/ CheckTodayBirthdays

SpecDetect == InitDetect /\ [][NextDetect]_vars

---------------------------------------------------------------------------
\* Statistics and the check for a given date, over the same rosters and dates.

TargetDates == { Date(2024, 2, 29), Date(2023, 3, 1), Date(2025, 1, 2) }

InitStats == InitDetect

GetStatistics ==
    /\ stats' = get_statistics(clients, today)
    /\ UNCHANGED <<today, clients, upcoming, todayOut, byDate>>
    /\ UNCHANGED <<genVars, apiVars>>

CheckBirthdaysByDate ==
    \E target_date \in TargetDates :
        /\ byDate' = check_birthdays_by_date(clients, target_date)
        /\ UNCHANGED <<today, clients, upcoming, todayOut, stats>>
        /\ UNCHANGED <<genVars, apiVars>>

NextStats == GetStatistics \/ CheckBirthdaysByDate

SpecStats == InitStats /\ [][NextStats]_vars

---------------------------------------------------------------------------
\* The generator over a clients table that changes.

GenToday == Date(2024, 3, 1)

NewClients ==
    { [full_name |-> "Ivan Petrov", segment |-> Some(cp_VIP),
       birthday |-> Date(1994, 3, 1)] }

ClientIds == {1, 2}
EventTypes == {"birthday"}
Tones == { None, Some("None"), Some("formal") }
\* What a call draws from its environment: the random wish (0 for none) and
\* the reading of the wall clock.
Envs == { [roll |-> 0, clock |-> 1], [roll |-> Len(wishes_pool), clock |-> 2] }
BatchInputs == { <<1, 2>>, <<1, 2, 1>> }

InitGen ==
    /\ today = GenToday
    /\ clients = <<>>
    /\ upcoming = NotCalled
    /\ todayOut = TodayNotCalled
    /\ stats = StatsNotCalled
    /\ byDate = ByDateNotCalled
    /\ ApiIdle
    /\ GeneratorConstructed

\* A row is inserted; the table gives it the next id.
AddClient ==
    \E c \in NewClients :
        /\ Len(clients) < MaxClients
        /\ clients' = Append(clients,
                             Client(Len(clients) + 1, c.full_name, c.segment, c.birthday))
        /\ UNCHANGED <<today, upcoming, todayOut, stats, byDate>>
        /\ UNCHANGED <<genVars, apiVars>>

\* clear_database: every client row is deleted.
ClearDatabase ==
    /\ clients # <<>>
    /\ clients' = <<>>
    /\ UNCHANGED <<today, upcoming, todayOut, stats, byDate>>
    /\ UNCHANGED <<genVars, apiVars>>

RowIds(rows) == { rows[i].id : i \in 1..Len(rows) }

\* Whether a call replaced an entry of the cache by a different result.
Overwrote(before, after) ==
    \E k \in DOMAIN before : k \in DOMAIN after /\ after[k] # before[k]

\* What lastCall keeps of the call before: when that was a successful
\* generate_for_client call with the same arguments, its use_cache flag,
\* whether it computed its result, whether that replaced a different entry,
\* and the result; when that was clear_cache, whether the cache held this
\* call's key before it was cleared.
Prior(client_id, event_type, tone) ==
    IF /\ lastCall.op = "generate"
       /\ lastCall.outcome = "ok"
       /\ lastCall.client_id = client_id
       /\ lastCall.event_type = event_type
       /\ lastCall.tone = tone
    THEN [same |-> TRUE, cleared |-> FALSE, use_cache |-> lastCall.use_cache,
          computed |-> lastCall.fetched, overwrote |-> lastCall.overwrote,
          result |-> lastCall.result]
    ELSE IF lastCall.op = "clear"
    THEN [same |-> FALSE, cleared |-> TRUE,
          held |-> cache_key(client_id, event_type, tone) \in lastCall.keys]
    ELSE [same |-> FALSE, cleared |-> FALSE]

GenerateForClient ==
    \E client_id \in ClientIds, event_type \in EventTypes, tone \in Tones,
       use_cache \in BOOLEAN, env \in Envs :
      \E r \in { generate_for_client(clients, cache, use_ai, gigachat_api_key,
                                     env.clock, today, client_id, event_type,
                                     tone, use_cache, env.roll) } :
        /\ cache' = r.cache
        /\ lastCall' = [op |-> "generate", client_id |-> client_id,
                        event_type |-> event_type, tone |-> tone,
                        use_cache |-> use_cache, outcome |-> r.outcome,
                        result |-> r.result, fetched |-> r.fetched,
                        rolled |-> r.rolled,
                        existed |-> client_id \in RowIds(clients),
                        overwrote |-> Overwrote(cache, r.cache),
                        prior |-> Prior(client_id, event_type, tone)]
        /\ UNCHANGED <<today, clients, upcoming, todayOut, stats, byDate,
                     use_ai, gigachat_api_key, callers, apiVars>>

BatchGenerate ==
    \E client_ids \in BatchInputs, event_type \in EventTypes :
      \E envs \in [1..Len(client_ids) -> Envs] :
        \E r \in { batch_generate(clients, cache, use_ai, gigachat_api_key,
                                  today, client_ids, event_type, envs) } :
          /\ cache' = r.cache
          /\ lastCall' = [op |-> "batch", client_ids |-> client_ids,
                          event_type |-> event_type, outcome |-> "ok",
                          results |-> r.results,
                          fetched |-> r.fetched,
                          existing |-> RowIds(clients)]
          /\ UNCHANGED <<today, clients, upcoming, todayOut, stats, byDate,
                     use_ai, gigachat_api_key, callers, apiVars>>

\* clear_cache; lastCall keeps the keys the cache held before.
ClearCache ==
    /\ cache' = clear_cache(cache)
    /\ lastCall' = [op |-> "clear", keys |-> DOMAIN cache]
    /\ UNCHANGED <<today, clients, upcoming, todayOut, stats, byDate,
                     use_ai, gigachat_api_key, callers, apiVars>>

NextGen ==
    AddClient \/ ClearDatabase \/ GenerateForClient \/ BatchGenerate \/ ClearCache

SpecGen == InitGen /\ [][NextGen]_vars

---------------------------------------------------------------------------
\* The generator's functions applied to one client: segment
\* canonicalization, context construction, the two rendering paths and the
\* result of a call that found the client.

RawSegments ==
    { None, Some(<<>>), Some(cp_VIP), Some(cp_vip), Some(cp_VIP_client),
      Some(cp_Loyal_ru), Some(cp_New_ru), Some(cp_Standard_ru),
      Some(cp_Loyal_VIP), Some(cp_New_loyal), Some(cp_NEW), Some(cp_NEW_ru) }

RenderTodays == { Date(2024, 3, 15), Date(2024, 3, 14), Date(2024, 2, 20) }

RenderBirthdays ==
    { Date(2000, 3, 15), Date(1994, 3, 15), Date(1984, 3, 15), Date(1974, 3, 15),
      Date(2014, 3, 15), Date(2004, 3, 15), Date(1999, 3, 15), Date(1993, 3, 15),
      Date(2023, 3, 15), Date(2024, 1, 10) }

RenderEventTypes == { "birthday", "holiday" }
RenderTones == { None, Some("formal") }
ApiKeys == { None, Some("key") }

InitRender ==
    /\ today \in RenderTodays
    /\ \E s \in RawSegments, b \in RenderBirthdays :
          clients = << Client(1, "Ivan Petrov", s, b) >>
    /\ upcoming = NotCalled
    /\ todayOut = TodayNotCalled
    /\ stats = StatsNotCalled
    /\ byDate = ByDateNotCalled
    /\ ApiIdle
    /\ use_ai \in BOOLEAN
    /\ gigachat_api_key \in ApiKeys
    /\ cache = EmptyCache
    /\ lastCall = NoCall
    /\ callers = NoCallers

renderFrame ==
    <<today, clients, upcoming, todayOut, stats, byDate,
      use_ai, gigachat_api_key, cache, callers, apiVars>>

DetermineSegment ==
    \E s \in RawSegments :
        /\ lastCall' = [op |-> "_determine_segment", segment |-> s,
                        out |-> _determine_segment(s)]
        /\ UNCHANGED renderFrame

CreateContext ==
    \E event_type \in RenderEventTypes, tone \in RenderTones :
        /\ lastCall' = [op |-> "_create_context", client |-> clients[1],
                        event_type |-> event_type, tone |-> tone,
                        context |-> _create_context(clients[1], event_type, tone, today)]
        /\ UNCHANGED renderFrame

\* Both rendering paths on the same context, event type and segment.
RenderBothPaths ==
    \E event_type \in RenderEventTypes, tone \in RenderTones :
        LET context == _create_context(clients[1], event_type, tone, today)
            segment == _determine_segment(clients[1].segment)
        IN /\ lastCall' = [op |-> "render", event_type |-> event_type,
                           segment |-> segment, context |-> context,
                           template |-> _generate_with_template(context, event_type, segment),
                           ai |-> _generate_with_ai(context, event_type, segment)]
           /\ UNCHANGED renderFrame

\* Lines 74-102 for the client of the table.
ComputeResult ==
    \E event_type \in RenderEventTypes, tone \in RenderTones, env \in Envs :
        /\ lastCall' = [op |-> "result", client |-> clients[1],
                        event_type |-> event_type, tone |-> tone,
                        result |-> FreshResult(clients[1], use_ai, gigachat_api_key,
                                               env.clock, today, clients[1].id,
                                               event_type, tone, env.roll)]
        /\ UNCHANGED renderFrame

NextRender == DetermineSegment \/ CreateContext \/ RenderBothPaths \/ ComputeResult

SpecRender == InitRender /\ [][NextRender]_vars

---------------------------------------------------------------------------
\* Two callers of one generator, each running generate_for_client once; a
\* call advances line by line and the callers' steps interleave.  No lock
\* is taken anywhere in the method.

ConcTones == { None }

InitConc ==
    /\ today = GenToday
    /\ \E c \in NewClients :
          clients = << Client(1, c.full_name, c.segment, c.birthday) >>
    /\ upcoming = NotCalled
    /\ todayOut = TodayNotCalled
    /\ stats = StatsNotCalled
    /\ byDate = ByDateNotCalled
    /\ ApiIdle
    /\ GeneratorConstructed

concFrame ==
    <<today, clients, upcoming, todayOut, stats, byDate,
      use_ai, gigachat_api_key, lastCall, apiVars>>

InFlight(t) == callers[t].pc \notin {"idle", "done"}

\* The call is made (line 43); the caller stands before line 65.
Call(t) ==
    \E client_id \in ClientIds, event_type \in EventTypes, tone \in ConcTones,
       use_cache \in BOOLEAN :
        /\ callers[t].pc = "idle"
        /\ callers' = [callers EXCEPT ![t] =
              [pc |-> "check", client_id |-> client_id, event_type |-> event_type,
               tone |-> tone, use_cache |-> use_cache,
               key |-> cache_key(client_id, event_type, tone),
               missed |-> cache_key(client_id, event_type, tone) \notin DOMAIN cache,
               overlap |-> \E u \in Callers \ {t} : InFlight(u)]]
        /\ UNCHANGED cache
        /\ UNCHANGED concFrame

\* Lines 65-67: the cache check; a hit returns the stored result.
CheckCache(t) ==
    /\ callers[t].pc = "check"
    /\ callers' = [callers EXCEPT ![t] =
          IF CacheHit(cache, callers[t].key, callers[t].use_cache)
          THEN [callers[t] EXCEPT !.pc = "done"]
                 @@ [outcome |-> "ok", result |-> cache[callers[t].key],
                     computed |-> FALSE]
          ELSE [callers[t] EXCEPT !.pc = "query"]]
    /\ UNCHANGED cache
    /\ UNCHANGED concFrame

\* Lines 70-102: the client is queried; the call raises when there is none
\* and computes the result otherwise.
QueryAndCompute(t) ==
    \E env \in Envs :
        LET client == FindClient(clients, callers[t].client_id)
        IN /\ callers[t].pc = "query"
           /\ callers' = [callers EXCEPT ![t] =
                 IF IsNone(client)
                 THEN [callers[t] EXCEPT !.pc = "done"]
                        @@ [outcome |-> "ValueError", result |-> NoResult,
                            computed |-> FALSE]
                 ELSE [callers[t] EXCEPT !.pc = "store"]
                        @@ [result |-> FreshResult(Val(client), use_ai,
                                          gigachat_api_key, env.clock, today,
                                          callers[t].client_id,
                                          callers[t].event_type,
                                          callers[t].tone, env.roll)]]
           /\ UNCHANGED cache
           /\ UNCHANGED concFrame

\* Lines 105-107: the result is stored and returned.
Store(t) ==
    /\ callers[t].pc = "store"
    /\ cache' = StoreResult(cache, callers[t].key, callers[t].result,
                            callers[t].use_cache)
    /\ callers' = [callers EXCEPT ![t] =
          [callers[t] EXCEPT !.pc = "done"]
            @@ [outcome |-> "ok", computed |-> TRUE]]
    /\ UNCHANGED concFrame

NextConc ==
    \E t \in Callers : Call(t) \/ CheckCache(t) \/ QueryAndCompute(t) \/ Store(t)

SpecConc == InitConc /\ [][NextConc]_vars

---------------------------------------------------------------------------
\* The API router (src/api/routers/congratulations.py) over the module's
\* generator singleton.

\* TextGenerator.__init__, line 27: the flag of a new instance.
NewInstanceFlag(use_ai_arg) ==
    IF IsNone(use_ai_arg) THEN USE_REAL_AI ELSE Val(use_ai_arg)

\* get_text_generator: the fields of the instance it returns and whether
\* that instance was created by this call.  instance is _generator_instance
\* before the call, ai and c the fields of that instance.
get_text_generator(instance, ai, c, use_ai_arg) ==
    IF IsNone(instance)
    THEN [use_ai |-> NewInstanceFlag(use_ai_arg), cache |-> EmptyCache,
          created |-> TRUE]
    ELSE IF ~IsNone(use_ai_arg)
    THEN [use_ai |-> NewInstanceFlag(use_ai_arg), cache |-> EmptyCache,
          created |-> TRUE]
    ELSE [use_ai |-> ai, cache |-> c, created |-> FALSE]

TheInstance == Some("TextGenerator")

\* A response without a body, and what a request that ends before line 39
\* leaves of the singleton.
NoBody == [detail |-> "error"]
Rejected(status, instance, ai, c) ==
    [status |-> status, instance |-> instance, use_ai |-> ai, cache |-> c,
     reached |-> FALSE, created |-> FALSE, body |-> NoBody]

\* generate_congratulation, lines 33-75.
generate_congratulation(rows, instance, ai, c, apikey, t, client_id, event_type, tone, use_ai_arg, env) ==
    IF IsNone(FindClient(rows, client_id))
    THEN Rejected(404, instance, ai, c)
    ELSE LET g == get_text_generator(instance, ai, c, Some(use_ai_arg))
             r == generate_for_client(rows, g.cache, g.use_ai, apikey,
                                      env.clock, t, client_id, event_type,
                                      tone, TRUE, env.roll)
         IN [status |-> IF r.outcome = "ok" THEN 200 ELSE 500,
             instance |-> TheInstance, use_ai |-> g.use_ai,
             cache |-> r.cache, reached |-> TRUE, created |-> g.created,
             body |-> IF r.outcome = "ok"
                      THEN [text |-> r.result.text,
                            client_id |-> client_id,
                            event_type |-> event_type,
                            generated_at |-> r.result.generated_at,
                            method |-> r.result.method,
                            tone |-> r.result.tone,
                            length |-> r.result.length]
                      ELSE NoBody]

\* r.get("success", True)
Success(r) == IF "success" \in DOMAIN r THEN r.success ELSE TRUE

RECURSIVE CountIf(_, _)
CountIf(results, wanted) ==
    IF results = <<>> THEN 0
    ELSE (IF Success(Head(results)) = wanted THEN 1 ELSE 0)
            + CountIf(Tail(results), wanted)

\* Line 88: the most ids a batch request may carry.
BatchLimit == 10

\* generate_batch_congratulations, lines 88-115.
generate_batch_congratulations(rows, instance, ai, c, apikey, t, client_ids, event_type, use_ai_arg, envs) ==
    IF Len(client_ids) > BatchLimit
    THEN Rejected(400, instance, ai, c)
    ELSE IF { client_ids[i] : i \in 1..Len(client_ids) } \ RowIds(rows) # {}
    THEN Rejected(404, instance, ai, c)
    ELSE LET g == get_text_generator(instance, ai, c, Some(use_ai_arg))
             b == batch_generate(rows, g.cache, g.use_ai, apikey, t,
                                 client_ids, event_type, envs)
         IN [status |-> 200, instance |-> TheInstance, use_ai |-> g.use_ai,
             cache |-> b.cache, reached |-> TRUE, created |-> g.created,
             body |-> [success |-> TRUE,
                       total |-> Len(b.results),
                       successful |-> CountIf(b.results, TRUE),
                       failed |-> CountIf(b.results, FALSE),
                       results |-> b.results]]

\* str.capitalize() on the texts used here: the first letter in upper case,
\* the rest in lower case.
UpperCp(c) ==
    IF (c >= 97 /\ c <= 122) \/ (c >= 1072 /\ c <= 1103) THEN c - 32 ELSE c
Capitalize(s) ==
    IF s = <<>> THEN s ELSE <<UpperCp(Head(s))>> \o Lower(Tail(s))

\* Line 344.
TestTemplates == <<cp_vip, cp_loyal, cp_new, cp_default>>

\* The table as the request's session sees it while client.segment is set.
WithSegment(rows, client_id, segment) ==
    [i \in 1..Len(rows) |->
        IF rows[i].id = client_id
        THEN [rows[i] EXCEPT !.segment = segment]
        ELSE rows[i]]

\* Lines 347-363: one turn of the loop over the templates.  result is the
\* generation result the entry's preview, length and tone are taken from.
TestStep(rows, acc, ai, apikey, t, client_id, template, env) ==
    LET segment == Some(Capitalize(template))
        r == generate_for_client(WithSegment(rows, client_id, segment),
                                 acc.cache, ai, apikey, env.clock, t,
                                 client_id, "birthday", None, TRUE, env.roll)
    IN [results |-> Append(acc.results,
                           [template |-> template,
                            segment |-> segment,
                            length |-> r.result.length,
                            tone |-> r.result.tone,
                            result |-> r.result]),
        cache |-> r.cache]

RECURSIVE TestLoop(_, _, _, _, _, _, _, _)
TestLoop(rows, acc, ai, apikey, t, client_id, templates, envs) ==
    IF templates = <<>> THEN acc
    ELSE TestLoop(rows,
                  TestStep(rows, acc, ai, apikey, t, client_id,
                           Head(templates), Head(envs)),
                  ai, apikey, t, client_id, Tail(templates), Tail(envs))

\* Line 335: the rows the test endpoint draws its client from.
TestSample == 10
FirstRows(rows) ==
    SubSeq(rows, 1, IF Len(rows) < TestSample THEN Len(rows) ELSE TestSample)

\* test_generator, lines 335-373; pick is the place random.choice draws.
test_generator(rows, instance, ai, c, apikey, t, pick, use_ai_arg, envs) ==
    IF FirstRows(rows) = <<>>
    THEN Rejected(404, instance, ai, c)
    ELSE LET client == FirstRows(rows)[pick]
             g == get_text_generator(instance, ai, c, Some(use_ai_arg))
             l == TestLoop(rows, [results |-> <<>>, cache |-> g.cache],
                           g.use_ai, apikey, t, client.id, TestTemplates, envs)
         IN [status |-> 200, instance |-> TheInstance, use_ai |-> g.use_ai,
             cache |-> l.cache, reached |-> TRUE, created |-> g.created,
             body |-> [client |-> [id |-> client.id,
                                   name |-> client.full_name,
                                   original_segment |-> client.segment],
                       test_results |-> l.results,
                       generator_mode |-> IF use_ai_arg THEN "ai"
                                          ELSE "template"]]

\* Requests to the API.

ApiSegment(i) ==
    IF i = 1 THEN Some(cp_Loyal_ru) ELSE IF i = 2 THEN Some(cp_VIP) ELSE None

\* The tables of up to MaxClients rows with ids 1, 2, ...
ApiRosters ==
    { [i \in 1..n |-> Client(i, "Ivan Petrov", ApiSegment(i), Date(1994, 3, 1))] :
        n \in 0..MaxClients }

ApiTones == { None, Some("formal") }
UseAiArgs == { None, Some(FALSE), Some(TRUE) }
ApiBatches == { <<1>>, <<1, 2>>, <<2, 1, 2>>, <<1, 1, 1, 1, 1, 1, 1, 1, 1, 1, 1>> }
BatchEnvs(client_ids) ==
    IF Len(client_ids) > BatchLimit THEN { <<>> }
    ELSE [1..Len(client_ids) -> Envs]

InitApi ==
    /\ today = GenToday
    /\ clients \in ApiRosters
    /\ upcoming = NotCalled
    /\ todayOut = TodayNotCalled
    /\ stats = StatsNotCalled
    /\ byDate = ByDateNotCalled
    /\ ApiIdle
    /\ use_ai = USE_REAL_AI
    /\ gigachat_api_key \in ApiKeys
    /\ cache = EmptyCache
    /\ lastCall = NoCall
    /\ callers = NoCallers

apiFrame ==
    <<today, clients, upcoming, todayOut, stats, byDate, gigachat_api_key,
      callers, congratulations, smtp>>

\* What a request finds of the singleton.
Found ==
    [had_instance |-> ~IsNone(generator_instance), flag |-> use_ai,
     keys |-> DOMAIN cache]

\* A direct call of get_text_generator.
GetTextGenerator ==
    \E use_ai_arg \in UseAiArgs :
      \E g \in { get_text_generator(generator_instance, use_ai, cache, use_ai_arg) } :
        /\ generator_instance' = TheInstance
        /\ use_ai' = g.use_ai
        /\ cache' = g.cache
        /\ lastCall' = [op |-> "get_text_generator", use_ai |-> use_ai_arg,
                        reached |-> TRUE, created |-> g.created,
                        found |-> Found]
        /\ UNCHANGED apiFrame

\* What lastCall keeps of the request before, when that was a successful
\* generate request with the same arguments.
PriorRequest(client_id, event_type, tone, use_ai_arg) ==
    IF /\ lastCall.op = "generate_congratulation"
       /\ lastCall.status = 200
       /\ lastCall.client_id = client_id
       /\ lastCall.event_type = event_type
       /\ lastCall.tone = tone
       /\ lastCall.use_ai = Some(use_ai_arg)
    THEN [same |-> TRUE, text |-> lastCall.body.text]
    ELSE [same |-> FALSE]

GenerateCongratulation ==
    \E client_id \in ClientIds, event_type \in EventTypes, tone \in ApiTones,
       use_ai_arg \in BOOLEAN, env \in Envs :
      \E r \in { generate_congratulation(clients, generator_instance, use_ai,
                                         cache, gigachat_api_key, today,
                                         client_id, event_type, tone,
                                         use_ai_arg, env) } :
        /\ generator_instance' = r.instance
        /\ use_ai' = r.use_ai
        /\ cache' = r.cache
        /\ lastCall' = [op |-> "generate_congratulation",
                        client_id |-> client_id, event_type |-> event_type,
                        tone |-> tone, use_ai |-> Some(use_ai_arg),
                        status |-> r.status, body |-> r.body,
                        reached |-> r.reached, created |-> r.created,
                        found |-> Found,
                        prior |-> PriorRequest(client_id, event_type, tone,
                                               use_ai_arg)]
        /\ UNCHANGED apiFrame

GenerateBatchCongratulations ==
    \E client_ids \in ApiBatches, event_type \in EventTypes,
       use_ai_arg \in BOOLEAN :
      \E envs \in BatchEnvs(client_ids) :
        \E r \in { generate_batch_congratulations(clients, generator_instance,
                        use_ai, cache, gigachat_api_key, today, client_ids,
                        event_type, use_ai_arg, envs) } :
          /\ generator_instance' = r.instance
          /\ use_ai' = r.use_ai
          /\ cache' = r.cache
          /\ lastCall' = [op |-> "generate_batch_congratulations",
                          client_ids |-> client_ids,
                          event_type |-> event_type,
                          use_ai |-> Some(use_ai_arg),
                          status |-> r.status, body |-> r.body,
                          reached |-> r.reached, created |-> r.created,
                          found |-> Found,
                          existing |-> RowIds(clients)]
          /\ UNCHANGED apiFrame

TestGenerator ==
    \E use_ai_arg \in BOOLEAN, envs \in [1..Len(TestTemplates) -> Envs],
       pick \in 1..(IF clients = <<>> THEN 1 ELSE Len(FirstRows(clients))) :
      \E r \in { test_generator(clients, generator_instance, use_ai, cache,
                                gigachat_api_key, today, pick, use_ai_arg,
                                envs) } :
        /\ generator_instance' = r.instance
        /\ use_ai' = r.use_ai
        /\ cache' = r.cache
        /\ lastCall' = [op |-> "test_generator", use_ai |-> Some(use_ai_arg),
                        status |-> r.status, body |-> r.body,
                        reached |-> r.reached, created |-> r.created,
                        found |-> Found]
        /\ UNCHANGED apiFrame

NextApi ==
    \/ GetTextGenerator
    \/ GenerateCongratulation
    \/ GenerateBatchCongratulations
    \/ TestGenerator

SpecApi == InitApi /\ [][NextApi]_vars

---------------------------------------------------------------------------
\* Sending: the send endpoint of the router and the EmailSender
\* (src/modules/sender/email_sender.py).
\*
\* A request text is a sequence of runs [ch, n] of n equal characters, n > 0,
\* neighbouring runs of different characters, so that strip(), len() and the
\* slice can be computed on texts of 2000 characters; an e-mail address is a
\* sequence of code points.

IsSpace(ch) == ch \in {" ", "\n"}

\* str.strip()
RECURSIVE LStripRuns(_)
LStripRuns(text) ==
    IF text # <<>> /\ IsSpace(Head(text).ch) THEN LStripRuns(Tail(text))
    ELSE text
RECURSIVE RStripRuns(_)
RStripRuns(text) ==
    IF text # <<>> /\ IsSpace(text[Len(text)].ch)
    THEN RStripRuns(SubSeq(text, 1, Len(text) - 1))
    ELSE text
Strip(text) == RStripRuns(LStripRuns(text))

\* len()
RECURSIVE RunsLen(_)
RunsLen(text) ==
    IF text = <<>> THEN 0 ELSE Head(text).n + RunsLen(Tail(text))

\* text[:n]
RECURSIVE Slice(_, _)
Slice(text, n) ==
    IF text = <<>> \/ n <= 0 THEN <<>>
    ELSE IF Head(text).n >= n THEN << [ch |-> Head(text).ch, n |-> n] >>
    ELSE <<Head(text)>> \o Slice(Tail(text), n - Head(text).n)

\* Lines 194 and 211 of the router.
MinTextLength == 10
MaxStoredLength == 2000

\* all([settings.SMTP_HOST, settings.SMTP_USER, settings.SMTP_PASSWORD])
SmtpConfigured(settings) ==
    /\ TruthyStr(settings.SMTP_HOST)
    /\ TruthyStr(settings.SMTP_USER)
    /\ TruthyStr(settings.SMTP_PASSWORD)

\* Every record is marked pending.
DeliveryStatus_AlwaysPending(settings, channel) == "pending"

\* Lines 198-205 of the router: the status of the record.
DeliveryStatus(settings, channel) ==
    IF channel = "email" /\ SmtpConfigured(settings) THEN "pending"
    ELSE "simulated"

\* The send endpoint, lines 188-234: the response and the congratulations
\* table afterwards.  The table gives the new row the next id; the
\* background task of lines 222-224 does nothing.
send_congratulation(rows, history, settings, clock, client_id, text, channel) ==
    IF IsNone(FindClient(rows, client_id))
    THEN [status |-> 404, history |-> history, body |-> NoBody]
    ELSE IF text = <<>> \/ RunsLen(Strip(text)) < MinTextLength
    THEN [status |-> 400, history |-> history, body |-> NoBody]
    ELSE LET status == DeliveryStatus(settings, channel)
             congrat == [id |-> Len(history) + 1,
                         client_id |-> client_id,
                         event_type |-> "birthday",
                         text |-> Slice(text, MaxStoredLength),
                         sent_via |-> channel,
                         status |-> status,
                         sent_at |-> clock]
         IN [status |-> 200,
             history |-> Append(history, congrat),
             body |-> [success |-> TRUE,
                       congratulation_id |-> congrat.id,
                       channel |-> channel,
                       status |-> status,
                       sent_at |-> congrat.sent_at]]

\* "@" and "/"
cp_at == 64
cp_slash == 47
\* "_at_"
cp__at_ == <<95, 97, 116, 95>>

\* to_email.replace('@', '_at_')
RECURSIVE ReplaceAt(_)
ReplaceAt(s) ==
    IF s = <<>> THEN <<>>
    ELSE (IF Head(s) = cp_at THEN cp__at_ ELSE <<Head(s)>>) \o ReplaceAt(Tail(s))

\* Lines 329-335 of the sender: the log file is opened for writing in
\* logs/emails, which mkdir has made; open() raises when the file name
\* holds a path separator, its directory not being there.
LogFileOpens(to_email) == ~Contains(<<cp_slash>>, ReplaceAt(to_email))

\* _simulate_email: the result, or the exception of open().
_simulate_email(to_email, error) ==
    IF LogFileOpens(to_email)
    THEN [raised |-> FALSE, status |-> "simulated", to |-> to_email,
          method |-> "simulation", real |-> FALSE, error |-> error]
    ELSE [raised |-> TRUE, status |-> "FileNotFoundError", to |-> to_email,
          method |-> "simulation", real |-> FALSE, error |-> error]

\* _send_real_email: smtp_ok tells whether the SMTP exchange of lines
\* 287-290 went through; when it raised, the simulation is the fallback.
_send_real_email(to_email, smtp_ok) ==
    IF smtp_ok
    THEN [raised |-> FALSE, status |-> "sent", to |-> to_email,
          method |-> "smtp", real |-> TRUE, error |-> None]
    ELSE [_simulate_email(to_email, Some("SMTPException")) EXCEPT !.real = TRUE]

\* EmailSender.send_congratulation, lines 86-97; is_configured is what
\* __init__ computed from the settings.
EmailSender_send_congratulation(settings, to_email, smtp_ok) ==
    IF SmtpConfigured(settings) /\ ~settings.DEBUG
    THEN _send_real_email(to_email, smtp_ok)
    ELSE _simulate_email(to_email, None)

\* Lines 372-388: one turn of send_bulk.
BulkEntry(settings, to_email, smtp_ok) ==
    LET r == EmailSender_send_congratulation(settings, to_email, smtp_ok)
    IN IF r.raised
       THEN [status |-> "error", to |-> to_email, error |-> Some(r.status)]
       ELSE r

\* send_bulk: recipients are the addresses, smtp_oks the outcome of the SMTP
\* exchange of every turn.
send_bulk(settings, recipients, smtp_oks) ==
    [i \in 1..Len(recipients) |-> BulkEntry(settings, recipients[i], smtp_oks[i])]

\* Bound of the model: the rows the congratulations table may hold.
MaxHistory == 2

\* "a@b.ru", "a/b@b.ru"
cp_plain_email == <<97, 64, 98, 46, 114, 117>>
cp_slash_email == <<97, 47, 98, 64, 98, 46, 114, 117>>
Emails == { cp_plain_email, cp_slash_email }

Run(ch, n) == [ch |-> ch, n |-> n]
RequestTexts ==
    { <<>>,
      << Run("x", MinTextLength - 1) >>,
      << Run(" ", 3), Run("x", MinTextLength - 1), Run("\n", 3) >>,
      << Run("x", MinTextLength) >>,
      << Run(" ", 1), Run("x", MinTextLength), Run("\n", 1) >>,
      << Run("x", MaxStoredLength), Run("y", 1) >> }
Channels == { "email", "telegram" }
SendClocks == { 1 }

SmtpSettings ==
    { [SMTP_HOST |-> h, SMTP_USER |-> u, SMTP_PASSWORD |-> p, DEBUG |-> dbg] :
        h \in { None, Some("smtp.example.com") }, u \in { None, Some("agent") },
        p \in { None, Some("secret") }, dbg \in BOOLEAN }

InitSend ==
    /\ today = GenToday
    /\ clients = << Client(1, "Ivan Petrov", Some(cp_VIP), Date(1994, 3, 1)) >>
    /\ upcoming = NotCalled
    /\ todayOut = TodayNotCalled
    /\ stats = StatsNotCalled
    /\ byDate = ByDateNotCalled
    /\ GeneratorConstructed
    /\ generator_instance = None
    /\ congratulations = <<>>
    /\ smtp \in SmtpSettings

sendFrame ==
    <<today, clients, upcoming, todayOut, stats, byDate, use_ai,
      gigachat_api_key, cache, callers, generator_instance, smtp>>

\* A request to the send endpoint.
SendCongratulation ==
    \E client_id \in ClientIds, text \in RequestTexts, channel \in Channels,
       clock \in SendClocks :
      \E r \in { send_congratulation(clients, congratulations, smtp, clock,
                                     client_id, text, channel) } :
        /\ Len(congratulations) < MaxHistory
        /\ congratulations' = r.history
        /\ lastCall' = [op |-> "send", client_id |-> client_id,
                        text |-> text, channel |-> channel,
                        status |-> r.status, body |-> r.body]
        /\ UNCHANGED sendFrame

\* EmailSender.send_congratulation for one address.
EmailSend ==
    \E to_email \in Emails, smtp_ok \in BOOLEAN :
      \E r \in { EmailSender_send_congratulation(smtp, to_email, smtp_ok) } :
        /\ lastCall' = [op |-> "email", to |-> to_email, smtp_ok |-> smtp_ok,
                        result |-> r]
        /\ UNCHANGED <<sendFrame, congratulations>>

BulkRecipients ==
    { <<cp_plain_email>>, <<cp_plain_email, cp_slash_email>>,
      <<cp_slash_email, cp_plain_email, cp_plain_email>> }

\* EmailSender.send_bulk.
EmailSendBulk ==
    \E recipients \in BulkRecipients :
      \E smtp_oks \in [1..Len(recipients) -> BOOLEAN] :
        /\ lastCall' = [op |-> "bulk", recipients |-> recipients,
                        smtp_oks |-> smtp_oks,
                        results |-> send_bulk(smtp, recipients, smtp_oks)]
        /\ UNCHANGED <<sendFrame, congratulations>>

NextSend == SendCongratulation \/ EmailSend \/ EmailSendBulk

SpecSend == InitSend /\ [][NextSend]_vars

\* The same system started with SMTP host, user and password set, the
\* settings under which the endpoint creates pending records, and under the
\* fairness its server gives it: it keeps handling requests and calls while
\* any can be handled.
InitSendLive == InitSend /\ SmtpConfigured(smtp)

SpecSendLive == InitSendLive /\ [][NextSend]_vars /\ WF_vars(NextSend)

---------------------------------------------------------------------------
\* Reference notions the statements about the event checker are written in.

\* The least n >= 0 such that the day today + n has the birthday's month and
\* day.  A Feb 29 birthday recurs within 8 years.
TrueDaysUntil(b, t) ==
    LET cand == { ToOrdinal(Date(y, b.m, b.d)) - ToOrdinal(t) :
                    y \in { z \in t.y..(t.y + 8) : ValidDate(z, b.m, b.d) } }
        ok == { n \in cand : n >= 0 }
    IN CHOOSE n \in ok : \A k \in ok : n <= k

EventIds(events) == { events[j].client_id : j \in 1..Len(events) }

\* high < medium < low
PriorityRank(p) == CASE p = "high" -> 0 [] p = "medium" -> 1 [] p = "low" -> 2

\* The rule table of priorityOf over the canonical bucket.
TablePriority(bucket, days_until) ==
    IF days_until = 0 THEN "high"
    ELSE IF bucket = cp_vip /\ days_until <= 3 THEN "high"
    ELSE IF bucket = cp_loyal /\ days_until <= 2 THEN "medium"
    ELSE IF days_until <= 1 THEN "medium"
    ELSE "low"

IsFeb29(c) == c.birthday.m = 2 /\ c.birthday.d = 29

\* C1: check_birthdays emits a descriptor for a client exactly when the
\* least non-negative day offset to the client's next birthday is at most
\* days_ahead, for every roster, date and window (a call that raises emits
\* no descriptor).
C1_EmitsIffInWindow ==
    upcoming.status # "none" =>
        \A i \in 1..Len(clients) :
            (clients[i].id \in EventIds(upcoming.events))
            <=> (TrueDaysUntil(clients[i].birthday, today) <= upcoming.days_ahead)

\* C2: with a Feb 29 client in the roster check_birthdays completes without
\* raising, and every descriptor's upcoming_date is the soonest occurrence
\* of the birthday on or after today.
C2_Feb29Handled ==
    (upcoming.status # "none" /\ \E i \in 1..Len(clients) : IsFeb29(clients[i])) =>
        /\ upcoming.status = "ok"
        /\ \A j \in 1..Len(upcoming.events) :
              LET e == upcoming.events[j]
              IN /\ ~DateLess(e.upcoming_date, today)
                 /\ ToOrdinal(e.upcoming_date) - ToOrdinal(today)
                      = TrueDaysUntil(e.birthday, today)

\* C3: the returned list is ordered by (priority rank, days_until) with
\* high before medium before low, and full ties keep roster order.
C3_SortedByRank ==
    upcoming.status = "ok" =>
        \A i, j \in 1..Len(upcoming.events) :
            i < j =>
                LET a == upcoming.events[i]
                    b == upcoming.events[j]
                IN \/ PriorityRank(a.priority) < PriorityRank(b.priority)
                   \/ /\ a.priority = b.priority
                      /\ a.days_until < b.days_until
                   \/ /\ a.priority = b.priority
                      /\ a.days_until = b.days_until
                      /\ a.client_id < b.client_id

\* C4: the priority of every descriptor follows the rule table applied to
\* the canonical bucket of the client's segment.
C4_PriorityOfBucket ==
    upcoming.status = "ok" =>
        \A j \in 1..Len(upcoming.events) :
            LET e == upcoming.events[j]
            IN e.priority
                 = TablePriority(_determine_segment(e.client_segment), e.days_until)

\* C5: the clients check_today_birthdays returns are among those that
\* check_birthdays returns for days_ahead = 0 on the same roster and date,
\* and every entry is today, zero days out and of high priority.
C5_TodaySubsetOfUpcoming0 ==
    (todayOut.status = "ok" /\ upcoming.status # "none" /\ upcoming.days_ahead = 0) =>
        /\ EventIds(todayOut.events) \subseteq EventIds(upcoming.events)
        /\ \A j \in 1..Len(todayOut.events) :
              LET e == todayOut.events[j]
              IN e.is_today /\ e.days_until = 0 /\ e.priority = "high"

\* What does hold of check_birthdays: whenever it returns, C1's equivalence
\* and C2's soonest-occurrence property hold, and it raises only on a roster
\* with a Feb 29 birthday.
UpcomingCorrectWhenReturned ==
    /\ upcoming.status = "raised" => \E i \in 1..Len(clients) : IsFeb29(clients[i])
    /\ upcoming.status = "ok" =>
          /\ \A i \in 1..Len(clients) :
                (clients[i].id \in EventIds(upcoming.events))
                <=> (TrueDaysUntil(clients[i].birthday, today) <= upcoming.days_ahead)
          /\ \A j \in 1..Len(upcoming.events) :
                ToOrdinal(upcoming.events[j].upcoming_date) - ToOrdinal(today)
                  = TrueDaysUntil(upcoming.events[j].birthday, today)

\* What does hold of the order: ascending by the priority strings as text
\* ("high" < "low" < "medium"), then days_until, ties in roster order.
SortedByPriorityText ==
    upcoming.status = "ok" =>
        \A i, j \in 1..Len(upcoming.events) :
            i < j =>
                LET a == upcoming.events[i]
                    b == upcoming.events[j]
                IN \/ SortKeyLess(a, b)
                   \/ /\ a.priority = b.priority
                      /\ a.days_until = b.days_until
                      /\ a.client_id < b.client_id

\* What does hold between the two checks when check_birthdays returns.
TodaySubsetWhenReturned ==
    (todayOut.status = "ok" /\ upcoming.status = "ok" /\ upcoming.days_ahead = 0) =>
        EventIds(todayOut.events) = EventIds(upcoming.events)

---------------------------------------------------------------------------
\* Statements about the text generator.

IsResult(e) == "text" \in DOMAIN e
HasWish(result) ==
    \E i \in 1..Len(result.text) : result.text[i].part = "wish"

\* C6: of two successive generate_for_client calls with use_cache = true and
\* the same (client_id, event_type, tone), the second returns the result of
\* the first unchanged, without querying the client or drawing a wish.
C6_CachedIdempotent ==
    (/\ lastCall.op = "generate"
     /\ lastCall.use_cache
     /\ lastCall.prior.same
     /\ lastCall.prior.use_cache) =>
        /\ lastCall.outcome = "ok"
        /\ lastCall.result = lastCall.prior.result
        /\ ~lastCall.fetched
        /\ ~lastCall.rolled

\* The second of two such calls has returned; the first computed a text
\* that carries a supplemental wish.
C6_Witness ==
    /\ lastCall.op = "generate"
    /\ lastCall.use_cache
    /\ lastCall.prior.same
    /\ lastCall.prior.use_cache
    /\ lastCall.prior.computed
    /\ HasWish(lastCall.prior.result)

\* C7: every call that computes a result, with use_cache = false as well,
\* leaves that result in the cache under the call's key, and the next call
\* with use_cache = true and the same arguments returns exactly it.
C7_BypassOverwrites ==
    lastCall.op = "generate" =>
        /\ (lastCall.outcome = "ok" /\ lastCall.fetched) =>
              LET key == cache_key(lastCall.client_id, lastCall.event_type,
                                   lastCall.tone)
              IN key \in DOMAIN cache /\ cache[key] = lastCall.result
        /\ (lastCall.use_cache /\ lastCall.prior.same /\ lastCall.prior.computed) =>
              /\ lastCall.outcome = "ok"
              /\ lastCall.result = lastCall.prior.result

\* A call with use_cache = false replaced an older, different entry, and the
\* next call, with use_cache = true, has returned.
C7_Witness ==
    /\ lastCall.op = "generate"
    /\ lastCall.use_cache
    /\ lastCall.prior.same
    /\ lastCall.prior.computed
    /\ ~lastCall.prior.use_cache
    /\ lastCall.prior.overwrote

\* C8: a generate_for_client call for an id that has no row at the time of
\* the call fails with the not-found error, with use_cache = true as well.
C8_NotFoundWhenAbsent ==
    (lastCall.op = "generate" /\ ~lastCall.existed) =>
        lastCall.outcome = "ValueError"

\* What does hold: a call that is not answered from the cache fails exactly
\* when the client has no row.
NotFoundWhenQueried ==
    (lastCall.op = "generate" /\ lastCall.fetched) =>
        (lastCall.outcome = "ValueError" <=> ~lastCall.existed)

\* C9: batch_generate returns one entry per input id, in input order: a
\* generation result for an id that has a row, and the error entry
\* {client_id, message, success = false} for an id that has none.
C9_BatchOneEntryPerId ==
    lastCall.op = "batch" =>
        /\ lastCall.outcome = "ok"
        /\ Len(lastCall.results) = Len(lastCall.client_ids)
        /\ \A i \in 1..Len(lastCall.client_ids) :
              LET id == lastCall.client_ids[i]
                  e == lastCall.results[i]
              IN IF id \in lastCall.existing
                 THEN /\ IsResult(e)
                      /\ e.client_id = id
                      /\ e.event_type = lastCall.event_type
                 ELSE e = ErrorEntry(id)

\* A batch in which an id without a row comes before an id with one.
C9_Witness ==
    /\ lastCall.op = "batch"
    /\ \E i, j \in 1..Len(lastCall.results) :
          /\ i < j
          /\ ~IsResult(lastCall.results[i])
          /\ IsResult(lastCall.results[j])
          /\ \E k \in 1..Len(lastCall.results) :
                k # j /\ IsResult(lastCall.results[k])

\* The tones _determine_tone can give.
DerivedTones == {"formal", "friendly", "welcoming", "respectful"}

\* C10: a result is returned only for the triple it was generated for: it
\* carries the call's client id and event type, and the call's tone, or a
\* tone derived from the segment when the call's tone is null.
C10_KeyIsTriple ==
    (lastCall.op = "generate" /\ lastCall.outcome = "ok") =>
        /\ lastCall.result.client_id = lastCall.client_id
        /\ lastCall.result.event_type = lastCall.event_type
        /\ TruthyStr(lastCall.tone) =>
              lastCall.result.tone = Val(lastCall.tone)
        /\ IsNone(lastCall.tone) => lastCall.result.tone \in DerivedTones

\* What does hold: a result is returned only under the key text it was
\* stored under.
KeyTextOfResult ==
    (lastCall.op = "generate" /\ lastCall.outcome = "ok") =>
        \E tone \in Tones :
            /\ cache_key(lastCall.client_id, lastCall.event_type, lastCall.tone)
                 = cache_key(lastCall.result.client_id,
                             lastCall.result.event_type, tone)
            /\ lastCall.result.tone
                 \in (IF TruthyStr(tone) THEN {Val(tone)} ELSE DerivedTones)

\* C11: after clear_cache the cache holds no key, and the next
\* generate_for_client call with use_cache = true is not answered from the
\* cache: it queries the client and, when the client exists, computes a
\* result anew.
C11_ClearEmpties ==
    /\ lastCall.op = "clear" => DOMAIN cache = {}
    /\ (lastCall.op = "generate" /\ lastCall.use_cache /\ lastCall.prior.cleared) =>
          /\ lastCall.fetched
          /\ lastCall.outcome = "ok" => lastCall.rolled

\* The key of the call was cached before the clear, and the call after the
\* clear, with use_cache = true, has computed a result.
C11_Witness ==
    /\ lastCall.op = "generate"
    /\ lastCall.use_cache
    /\ lastCall.prior.cleared
    /\ lastCall.prior.held
    /\ lastCall.outcome = "ok"

---------------------------------------------------------------------------
\* Statements about segment, context and rendering.

Buckets == { cp_vip, cp_loyal, cp_new, cp_default }

\* Case-insensitive substring test: some stretch of raw reads as marker
\* once case is ignored.
HasMarker(raw, marker) ==
    \E k \in 1..(Len(raw) - Len(marker) + 1) :
        Lower(SubSeq(raw, k, k + Len(marker) - 1)) = marker

\* The bucket the rule gives, markers tried in the order vip, loyal, new.
CanonicalBucket(raw) ==
    IF IsNone(raw) \/ Val(raw) = <<>> THEN cp_default
    ELSE IF HasMarker(Val(raw), cp_vip) THEN cp_vip
    ELSE IF HasMarker(Val(raw), cp_loyal) \/ HasMarker(Val(raw), cp_loyal_ru)
         THEN cp_loyal
    ELSE IF HasMarker(Val(raw), cp_new) \/ HasMarker(Val(raw), cp_new_ru)
         THEN cp_new
    ELSE cp_default

\* C12: _determine_segment gives, for every raw segment, the bucket of the
\* rule (null or empty gives default; case-insensitive substring match in
\* the order vip, loyal, new; else default), always one of the four
\* buckets, and the segment of a generation result is that bucket.
C12_SegmentBucket ==
    /\ lastCall.op = "_determine_segment" =>
          /\ lastCall.out \in Buckets
          /\ lastCall.out = CanonicalBucket(lastCall.segment)
    /\ lastCall.op = "result" =>
          /\ lastCall.result.segment \in Buckets
          /\ lastCall.result.segment = CanonicalBucket(lastCall.client.segment)

\* A segment that carries the loyal and the vip marker, in capitals, has
\* been canonicalized to vip.
C12_Witness ==
    /\ lastCall.op = "_determine_segment"
    /\ lastCall.segment = Some(cp_Loyal_VIP)
    /\ lastCall.out = cp_vip

\* The fixed table from canonical bucket to tone.
TableTone(bucket) ==
    CASE bucket = cp_vip -> "formal"
      [] bucket = cp_loyal -> "friendly"
      [] bucket = cp_new -> "welcoming"
      [] bucket = cp_default -> "respectful"

\* The tone the rule gives a call: the caller's, else the table tone of the
\* client's canonical bucket.
ExpectedTone(client, tone) ==
    IF IsNone(tone) THEN TableTone(CanonicalBucket(client.segment)) ELSE Val(tone)

\* C13: the tone of the render context and the tone of the result both
\* equal the caller's tone when one is given, and otherwise the table tone
\* of the client's canonical bucket, for every raw segment.
C13_ToneAgrees ==
    lastCall.op = "result" =>
        /\ lastCall.result.tone = ExpectedTone(lastCall.client, lastCall.tone)
        /\ lastCall.result.context.tone = ExpectedTone(lastCall.client, lastCall.tone)

\* What does hold: the result's tone follows the rule; the context's tone
\* does so when the caller gives a tone or the raw segment is null or is
\* itself the name of a bucket, and is "respectful" otherwise.
ToneOfResultAndContext ==
    lastCall.op = "result" =>
        /\ lastCall.result.tone = ExpectedTone(lastCall.client, lastCall.tone)
        /\ lastCall.result.context.tone
             = (IF ~IsNone(lastCall.tone) THEN Val(lastCall.tone)
                ELSE IF ~IsNone(lastCall.client.segment)
                        /\ Val(lastCall.client.segment) \in Buckets
                     THEN TableTone(Val(lastCall.client.segment))
                ELSE "respectful")

\* Whether (month, day) of a is strictly before (month, day) of b.
MonthDayBefore(a, b) == LexLess(<<a.m, a.d>>, <<b.m, b.d>>)

\* C14: for a birthday event the context age is today.year - birthday.year,
\* less one exactly when today's (month, day) is strictly before the
\* birthday's; for any other event type the age is null.
C14_AgeOfContext ==
    lastCall.op = "_create_context" =>
        lastCall.context.age
          = (IF lastCall.event_type = "birthday"
             THEN Some(today.y - lastCall.client.birthday.y
                       - (IF MonthDayBefore(today, lastCall.client.birthday)
                          THEN 1 ELSE 0))
             ELSE None)

\* Born 2000-03-15, context built on 2024-03-15 for a birthday: age 24.
C14_Witness ==
    /\ lastCall.op = "_create_context"
    /\ lastCall.event_type = "birthday"
    /\ lastCall.client.birthday = Date(2000, 3, 15)
    /\ today = Date(2024, 3, 15)
    /\ lastCall.context.age = Some(24)

\* C15: is_jubilee is true exactly when the age is a positive multiple of
\* 10 and at least 30; a null age and age 0 are no jubilee.
C15_JubileeIff ==
    lastCall.op = "_create_context" =>
        (Truthy(lastCall.context.is_jubilee)
         <=> /\ ~IsNone(lastCall.context.age)
             /\ Val(lastCall.context.age) > 0
             /\ Val(lastCall.context.age) % 10 = 0
             /\ Val(lastCall.context.age) >= 30)

\* A context with age 40 is a jubilee.
C15_Witness ==
    /\ lastCall.op = "_create_context"
    /\ lastCall.context.age = Some(40)
    /\ Truthy(lastCall.context.is_jubilee)

\* C16: age_adjective is "young" for every non-null age below 30, age 0
\* included, "mature" from 30 to 49, "respected" from 50, and absent
\* exactly when the age is null.
C16_AgeAdjective ==
    lastCall.op = "_create_context" =>
        lastCall.context.age_adjective
          = (IF IsNone(lastCall.context.age) THEN None
             ELSE IF Val(lastCall.context.age) < 30 THEN Some("young")
             ELSE IF Val(lastCall.context.age) < 50 THEN Some("mature")
             ELSE Some("respected"))

\* What does hold: the adjective follows the bands for every age other
\* than 0 and is absent for a null age and for age 0.
AgeAdjectiveWhenNonZero ==
    lastCall.op = "_create_context" =>
        lastCall.context.age_adjective
          = (IF IsNone(lastCall.context.age) \/ lastCall.context.age = Some(0)
             THEN None
             ELSE IF Val(lastCall.context.age) < 30 THEN Some("young")
             ELSE IF Val(lastCall.context.age) < 50 THEN Some("mature")
             ELSE Some("respected"))

\* C17: the text of the AI path is the text of the template path for the
\* same context, event type and segment, followed by the provenance marker.
C17_AiIsTemplatePlusMarker ==
    lastCall.op = "render" =>
        lastCall.ai = Append(lastCall.template, AiMarkerPart)

\* What does hold: the AI path gives the formatted template and the marker,
\* without the jubilee sentence; the two paths agree up to the marker
\* exactly when the template path appends no jubilee sentence.
AiIsFormattedTemplatePlusMarker ==
    lastCall.op = "render" =>
        /\ lastCall.ai
             = Append(format_template(
                          get_template_by_event_type(lastCall.event_type,
                                                     lastCall.segment),
                          lastCall.context),
                      AiMarkerPart)
        /\ (lastCall.ai = Append(lastCall.template, AiMarkerPart))
             <=> ~(Truthy(lastCall.context.is_jubilee)
                   /\ lastCall.event_type = "birthday")

---------------------------------------------------------------------------
\* Statements about statistics and the check for a given date.

RECURSIVE SumOver(_, _)
SumOver(f, keys) ==
    IF keys = {} THEN 0
    ELSE LET k == CHOOSE x \in keys : TRUE
         IN f[k] + SumOver(f, keys \ {k})

\* The raw label a client is counted under.
RawLabel(client) ==
    IF IsNone(client.segment) \/ Val(client.segment) = <<>> THEN cp_Not_set_ru
    ELSE Val(client.segment)

\* C19: get_statistics returns, for every roster, the number of clients,
\* the number check_today_birthdays returns, the number check_birthdays
\* returns for days_ahead = 7, and the count of clients per raw segment
\* label, the counts summing to the total; so
\* birthdays_today <= birthdays_this_week <= total_clients.
C19_Statistics ==
    stats.status # "none" =>
        /\ stats.status = "ok"
        /\ stats.total_clients = Len(clients)
        /\ stats.birthdays_today = Len(check_today_birthdays(clients, today).events)
        /\ stats.birthdays_this_week
             = Len(check_birthdays(clients, today, Some(7)).events)
        /\ \A i \in 1..Len(clients) :
              /\ RawLabel(clients[i]) \in DOMAIN stats.segments
              /\ stats.segments[RawLabel(clients[i])]
                   = Cardinality({ j \in 1..Len(clients) :
                                     RawLabel(clients[j]) = RawLabel(clients[i]) })
        /\ SumOver(stats.segments, DOMAIN stats.segments) = stats.total_clients
        /\ stats.birthdays_today <= stats.birthdays_this_week
        /\ stats.birthdays_this_week <= stats.total_clients

\* What does hold of get_statistics: it raises only on a roster with a
\* Feb 29 birthday, and whenever it returns, the figures are those of C19.
StatisticsCorrectWhenReturned ==
    /\ stats.status = "raised" => \E i \in 1..Len(clients) : IsFeb29(clients[i])
    /\ stats.status = "ok" =>
          /\ stats.total_clients = Len(clients)
          /\ stats.birthdays_today
               = Cardinality({ i \in 1..Len(clients) :
                                 TrueDaysUntil(clients[i].birthday, today) = 0 })
          /\ stats.birthdays_this_week
               = Cardinality({ i \in 1..Len(clients) :
                                 TrueDaysUntil(clients[i].birthday, today) <= 7 })
          /\ \A i \in 1..Len(clients) :
                /\ RawLabel(clients[i]) \in DOMAIN stats.segments
                /\ stats.segments[RawLabel(clients[i])]
                     = Cardinality({ j \in 1..Len(clients) :
                                       RawLabel(clients[j]) = RawLabel(clients[i]) })
          /\ SumOver(stats.segments, DOMAIN stats.segments) = stats.total_clients
          /\ stats.birthdays_today <= stats.birthdays_this_week
          /\ stats.birthdays_this_week <= stats.total_clients

\* The rows whose birthday has the month and day of d, in roster order.
RECURSIVE RowsOnDate(_, _)
RowsOnDate(rows, d) ==
    IF rows = <<>> THEN <<>>
    ELSE IF Head(rows).birthday.m = d.m /\ Head(rows).birthday.d = d.d
    THEN <<Head(rows)>> \o RowsOnDate(Tail(rows), d)
    ELSE RowsOnDate(Tail(rows), d)

\* C20: check_birthdays_by_date returns exactly the clients whose birthday
\* has the month and day of the target date, once each and in roster
\* order, every entry made of the client's fields and the target date
\* alone, so the list is the same whatever the current date is.
C20_ByDateIndependentOfToday ==
    byDate.status = "ok" =>
        LET rows == RowsOnDate(clients, byDate.target_date)
        IN /\ Len(byDate.events) = Len(rows)
           /\ \A j \in 1..Len(rows) :
                 /\ byDate.events[j].client_id = rows[j].id
                 /\ byDate.events[j].client_segment = rows[j].segment
                 /\ byDate.events[j].birthday = rows[j].birthday
                 /\ byDate.events[j].target_date = byDate.target_date
                 /\ byDate.events[j].priority = "high"
                 /\ byDate.events[j].type = "birthday"

\* A client has been returned for a target date whose month and day are
\* not today's, while another client has today's month and day.
C20_Witness ==
    /\ byDate.status = "ok"
    /\ byDate.events # <<>>
    /\ Len(byDate.events) < Len(clients)
    /\ ~(byDate.target_date.m = today.m /\ byDate.target_date.d = today.d)
    /\ \E i \in 1..Len(clients) :
          clients[i].birthday.m = today.m /\ clients[i].birthday.d = today.d

---------------------------------------------------------------------------
\* Statements about concurrent callers.

\* Both callers have returned a result from calls with use_cache = true for
\* one key.
BothReturned ==
    /\ \A t \in Callers : callers[t].pc = "done" /\ callers[t].outcome = "ok"
    /\ \A t \in Callers : callers[t].use_cache
    /\ callers[1].key = callers[2].key

\* C18: when two callers invoke generate_for_client concurrently with
\* use_cache = true for one key that is not cached, the result is computed
\* and stored at most once and both receive the same result.
C18_AtomicPerKey ==
    (/\ BothReturned
     /\ \A t \in Callers : callers[t].missed
     /\ \E t \in Callers : callers[t].overlap) =>
        /\ callers[1].result = callers[2].result
        /\ ~(callers[1].computed /\ callers[2].computed)

\* What does hold: two such calls that do not overlap return the same
\* result, computed at most once.
SequentialCallsAgree ==
    (/\ BothReturned
     /\ \A t \in Callers : ~callers[t].overlap) =>
        /\ callers[1].result = callers[2].result
        /\ ~(callers[1].computed /\ callers[2].computed)

---------------------------------------------------------------------------
\* Statements about the text and the method of a computed result.

\* The text the rendering path of the generator gives for the result's
\* context, event type and segment.
RenderedFor(result) ==
    IF use_ai /\ TruthyStr(gigachat_api_key)
    THEN _generate_with_ai(result.context, result.event_type, result.segment)
    ELSE _generate_with_template(result.context, result.event_type, result.segment)

HasAiMarker(result) ==
    \E i \in 1..Len(result.text) : result.text[i] = AiMarkerPart

C29_MethodIsPath ==
    lastCall.op = "result" =>
        /\ lastCall.result.method = "ai" <=> (use_ai /\ TruthyStr(gigachat_api_key))
        /\ lastCall.result.method = "ai" <=> HasAiMarker(lastCall.result)
        /\ lastCall.result.method \in {"ai", "template"}

\* What does hold: the marker is there exactly when AI mode is on and the
\* credential is configured, and method repeats the use_ai flag alone.
MethodIsUseAiFlag ==
    lastCall.op = "result" =>
        /\ HasAiMarker(lastCall.result) <=> (use_ai /\ TruthyStr(gigachat_api_key))
        /\ lastCall.result.method = "ai" <=> use_ai
        /\ lastCall.result.method \in {"ai", "template"}

---------------------------------------------------------------------------
\* Statements about what a batch and a failing call do to the cache.

\* lastCall names the call of the latest step that was a call; the steps
\* that change the table leave both it and the cache alone.  The keys whose
\* entry a step adds, removes or changes:
Touched(before, after) ==
    { k \in (DOMAIN before) \cup (DOMAIN after) :
        \/ k \notin DOMAIN before
        \/ k \notin DOMAIN after
        \/ before[k] # after[k] }

\* The keys of an id.
KeysOf(client_id) ==
    { cache_key(client_id, e, tone) : e \in EventTypes, tone \in Tones }

\* Whether an entry is the result of a call made with a tone: such a result
\* carries the caller's tone, and its key is made of that tone.
StoredUnderTone(key, entry) ==
    \E id \in ClientIds, e \in EventTypes, tone \in Tones \ {None} :
        /\ key = cache_key(id, e, tone)
        /\ entry.client_id = id
        /\ entry.event_type = e
        /\ entry.tone = Val(tone)

\* The place of the last occurrence of an id in a list of ids.
LastOccurrence(client_ids, id) ==
    CHOOSE i \in 1..Len(client_ids) :
        /\ client_ids[i] = id
        /\ \A j \in 1..Len(client_ids) : client_ids[j] = id => j <= i

\* Every id of the batch was generated anew, and the entry of every
\* succeeding id under (id, event_type, null tone) is the result returned
\* for the last occurrence of the id.
BatchRegenerated ==
    /\ \A i \in 1..Len(lastCall.client_ids) : lastCall.fetched[i]
    /\ \A i \in 1..Len(lastCall.client_ids) :
          LET id == lastCall.client_ids[i]
              key == cache_key(id, lastCall.event_type, None)
          IN id \in lastCall.existing =>
                /\ key \in DOMAIN cache
                /\ cache[key] = lastCall.results[LastOccurrence(lastCall.client_ids, id)]

\* C23: batch_generate serves no id from the cache; afterwards the entry
\* under (id, event_type, null tone) of every succeeding id is the result
\* returned for the last occurrence of that id, and no entry stored under
\* a tone is removed or changed.
C23_BatchFrame ==
    [][ lastCall'.op = "batch" =>
          /\ BatchRegenerated'
          /\ \A k \in Touched(cache, cache') \cap DOMAIN cache :
                ~StoredUnderTone(k, cache[k]) ]_vars

\* What does hold: the batch regenerates every id and touches only the key
\* texts of (id, event_type, null tone) of the succeeding ids.
BatchTouchesNullToneKeyText ==
    [][ lastCall'.op = "batch" =>
          /\ BatchRegenerated'
          /\ Touched(cache, cache')
               \subseteq { cache_key(id, lastCall'.event_type, None) :
                             id \in lastCall'.existing } ]_vars

\* C30: a generate_for_client call that fails with the not-found error
\* adds, removes and changes no cache entry, and a batch_generate call
\* leaves every entry of an id that produced an error entry as it was.
C30_FailureKeepsCache ==
    [][ /\ (lastCall'.op = "generate" /\ lastCall'.outcome = "ValueError") =>
              Touched(cache, cache') = {}
        /\ lastCall'.op = "batch" =>
              \A i \in 1..Len(lastCall'.client_ids) :
                  ~IsResult(lastCall'.results[i]) =>
                      Touched(cache, cache')
                          \cap KeysOf(lastCall'.client_ids[i]) = {} ]_vars

\* A call has failed for an id whose earlier result is still in the cache.
C30_Witness ==
    /\ lastCall.op = "generate"
    /\ lastCall.outcome = "ValueError"
    /\ KeysOf(lastCall.client_id) \cap DOMAIN cache # {}

---------------------------------------------------------------------------
\* Statements about the API over the generator singleton.

\* A call that reached get_text_generator.
ReachedSingleton == lastCall.op # "none" /\ lastCall.reached

\* C21: get_text_generator replaces the instance, and so discards its
\* cache, only when the requested use_ai differs from the flag of the
\* current instance; and two successive generate requests through the API
\* with the same client, event type, tone and use_ai return the same text.
C21_SingletonKeptWhileFlagUnchanged ==
    /\ (ReachedSingleton /\ lastCall.found.had_instance /\ lastCall.created) =>
          /\ ~IsNone(lastCall.use_ai)
          /\ Val(lastCall.use_ai) # lastCall.found.flag
    /\ (/\ lastCall.op = "generate_congratulation"
        /\ lastCall.status = 200
        /\ lastCall.prior.same) =>
          lastCall.body.text = lastCall.prior.text

\* What does hold: the instance is created when there is none, replaced by
\* an instance with an empty cache whenever the call names a flag, equal to
\* the current one or not, and kept with its cache when the call names none.
SingletonReplacedOnAnyFlag ==
    ReachedSingleton =>
        /\ lastCall.created
             <=> (~lastCall.found.had_instance \/ ~IsNone(lastCall.use_ai))
        /\ (lastCall.op = "get_text_generator" /\ lastCall.created) =>
              cache = EmptyCache
        /\ (lastCall.op = "get_text_generator" /\ ~lastCall.created) =>
              /\ DOMAIN cache = lastCall.found.keys
              /\ use_ai = lastCall.found.flag

\* C24: a batch request with at most 10 ids is not aborted by an id that
\* does not exist: the response has one result per requested id in order,
\* failures for the absent ids alongside successes for the others, total is
\* the number of requested ids and successful + failed = total.
C24_BatchNeverAborts ==
    (/\ lastCall.op = "generate_batch_congratulations"
     /\ Len(lastCall.client_ids) <= BatchLimit) =>
        /\ lastCall.status = 200
        /\ lastCall.body.total = Len(lastCall.client_ids)
        /\ lastCall.body.successful + lastCall.body.failed = lastCall.body.total
        /\ Len(lastCall.body.results) = Len(lastCall.client_ids)
        /\ \A i \in 1..Len(lastCall.client_ids) :
              /\ lastCall.body.results[i].client_id = lastCall.client_ids[i]
              /\ Success(lastCall.body.results[i])
                   <=> lastCall.client_ids[i] \in lastCall.existing

\* What does hold: a batch request with at most 10 ids is answered 404,
\* with no result at all, as soon as one id does not exist; it is answered
\* 200 when every id exists, and then no result is a failure.
BatchAllOrNothing ==
    (/\ lastCall.op = "generate_batch_congratulations"
     /\ Len(lastCall.client_ids) <= BatchLimit) =>
        LET ids == { lastCall.client_ids[i] : i \in 1..Len(lastCall.client_ids) }
        IN IF ids \subseteq lastCall.existing
           THEN /\ lastCall.status = 200
                /\ lastCall.body.total = Len(lastCall.client_ids)
                /\ lastCall.body.successful = lastCall.body.total
                /\ lastCall.body.failed = 0
           ELSE /\ lastCall.status = 404
                /\ lastCall.body = NoBody
                /\ ~lastCall.reached

\* C28: the test endpoint returns four variants for one client, one per
\* template vip, loyal, new, default in that order, the i-th generated with
\* the client's segment set to the i-th template: its tone and its text are
\* those of the i-th segment.
C28_OneVariantPerTemplate ==
    (lastCall.op = "test_generator" /\ lastCall.status = 200) =>
        /\ Len(lastCall.body.test_results) = Len(TestTemplates)
        /\ \A i \in 1..Len(TestTemplates) :
              LET e == lastCall.body.test_results[i]
              IN /\ e.template = TestTemplates[i]
                 /\ e.result.segment = TestTemplates[i]
                 /\ e.tone = TableTone(TestTemplates[i])

\* What does hold: the four entries name the four templates in order, and
\* every one of them is cut from the result of the first turn, generated
\* for the segment vip.
AllVariantsFromFirstTurn ==
    (lastCall.op = "test_generator" /\ lastCall.status = 200) =>
        /\ Len(lastCall.body.test_results) = Len(TestTemplates)
        /\ \A i \in 1..Len(TestTemplates) :
              LET e == lastCall.body.test_results[i]
              IN /\ e.template = TestTemplates[i]
                 /\ e.segment = Some(Capitalize(TestTemplates[i]))
                 /\ e.result = lastCall.body.test_results[1].result
                 /\ e.result.segment = cp_vip
                 /\ e.tone = TableTone(cp_vip)

---------------------------------------------------------------------------
\* Statements about sending.

\* SMTP host, user and password are all set.
AllConfigured(settings) ==
    \A f \in {"SMTP_HOST", "SMTP_USER", "SMTP_PASSWORD"} :
        settings[f] # None /\ Val(settings[f]) # ""

\* The length of a text without the white space at its ends.
TrimmedLength(text) ==
    LET inner == { i \in 1..Len(text) : ~IsSpace(text[i].ch) }
    IN IF inner = {} THEN 0
       ELSE LET lo == CHOOSE i \in inner : \A j \in inner : i <= j
                hi == CHOOSE i \in inner : \A j \in inner : j <= i
            IN RunsLen(SubSeq(text, lo, hi))

C26_PendingEventuallySent ==
    \A i \in 1..MaxHistory :
        (Len(congratulations) >= i /\ congratulations[i].status = "pending")
            ~> (/\ Len(congratulations) >= i
                /\ congratulations[i].status \in {"sent", "failed"})

\* What does hold: no step changes a record of the table, so a pending
\* record stays pending.
RecordsNeverChange ==
    [][ \A i \in 1..Len(congratulations) :
            /\ Len(congratulations') >= i
            /\ congratulations'[i] = congratulations[i] ]_vars

DeliveryStatuses == {"pending", "sent", "simulated", "failed"}

\* C27: EmailSender.send_congratulation attempts the SMTP send exactly when
\* host, user and password are set and DEBUG is off, and simulates
\* otherwise; it never raises; when the SMTP send raises the result is a
\* simulated one carrying the error, so the status is sent or simulated;
\* send_bulk returns one result per recipient in order, every status in
\* {pending, sent, simulated, failed}.
C27_SenderNeverRaises ==
    /\ lastCall.op = "email" =>
          /\ lastCall.result.real <=> (AllConfigured(smtp) /\ ~smtp.DEBUG)
          /\ ~lastCall.result.raised
          /\ lastCall.result.status \in {"sent", "simulated"}
          /\ (lastCall.result.real /\ ~lastCall.smtp_ok) =>
                /\ lastCall.result.status = "simulated"
                /\ lastCall.result.error # None
    /\ lastCall.op = "bulk" =>
          /\ Len(lastCall.results) = Len(lastCall.recipients)
          /\ \A i \in 1..Len(lastCall.recipients) :
                /\ lastCall.results[i].to = lastCall.recipients[i]
                /\ lastCall.results[i].status \in DeliveryStatuses

HasSlash(to_email) == \E i \in 1..Len(to_email) : to_email[i] = cp_slash

\* What does hold: the SMTP send is attempted exactly when the sender is
\* configured and DEBUG is off, and a send that does not go through SMTP
\* raises exactly when the address holds a path separator; send_bulk
\* returns one result per recipient in order, with status error for such an
\* address and sent or simulated for every other.
SenderRaisesOnlyOnLogFile ==
    /\ lastCall.op = "email" =>
          /\ lastCall.result.real <=> (AllConfigured(smtp) /\ ~smtp.DEBUG)
          /\ lastCall.result.raised
                <=> (/\ HasSlash(lastCall.to)
                     /\ ~(lastCall.result.real /\ lastCall.smtp_ok))
          /\ ~lastCall.result.raised =>
                lastCall.result.status \in {"sent", "simulated"}
    /\ lastCall.op = "bulk" =>
          /\ Len(lastCall.results) = Len(lastCall.recipients)
          /\ \A i \in 1..Len(lastCall.recipients) :
                /\ lastCall.results[i].to = lastCall.recipients[i]
                /\ lastCall.results[i].status
                      \in {"sent", "simulated", "error"}
                /\ lastCall.results[i].status = "error" =>
                      HasSlash(lastCall.recipients[i])

====
